---- MODULE Spec2Model ----
(***************************************************************************)
(* Model of the metrics/error recording and retention engine of            *)
(* src/app.py: DatabaseManager (metrics and errors tables, eviction),      *)
(* PerformanceMonitor (monitor_function, log_error, thresholds), the       *)
(* background_monitoring loop, and the request side that feeds and reads   *)
(* the store: require_api_key, get_errors, get_performance_history,        *)
(* manage_thresholds; and the api_keys table with create_api_key and       *)
(* validate_api_key.                                                       *)
(*                                                                         *)
(* Request threads run monitor_function invocations step by step; every    *)
(* database statement commits atomically (one SQLite transaction), so the  *)
(* interleaving points are the statements.  Time is in seconds:            *)
(* CURRENT_TIMESTAMP (created_at) has one-second resolution.               *)
(***************************************************************************)
EXTENDS Integers, Sequences, FiniteSets

(* ------------------------------ bounds -------------------------------- *)

\* monitor_function invocations started in one run
MaxCalls == 2
\* events of the environment in one run: clock advances, storage failures
\* (sqlite3.OperationalError), completed sleeps of the background loop
MaxEvents == 1
\* seconds the clock advances by at a time
TickSeconds == 6
\* rows of the errors table in the runs that query it
MaxErrors == 3
\* log_error calls in the runs that follow the derived columns
MaxLogged == 2
\* ids handed out per table in the runs of the store alone
MaxRows == 3
\* rows of the api_keys table
MaxKeys == 4

(* ------------------------- program constants -------------------------- *)

\* Config.MAX_HISTORY_RECORDS (environment-configurable; default 10000)
MAX_HISTORY_RECORDS == 1
\* time.sleep(30) of a cycle that completed
SLEEP_RUNNING == 30
\* time.sleep(60) after a cycle that failed
SLEEP_BACKOFF == 60

(* ------------------------------ values -------------------------------- *)

\* A JSON value stored in the thresholds dict: a number, or something that is
\* not a number (dict.update stores whatever request.json holds).
Num(n) == [type |-> "number", value |-> n]
NotNum == [type |-> "string", value |-> 0]
IsNumber(x) == x.type = "number"

\* PerformanceMonitor.__init__: the default thresholds
DefaultThresholds ==
    [cpu |-> Num(80), memory |-> Num(80), disk |-> Num(90), response_time |-> Num(5)]

\* request.json bodies of POST /api/thresholds tried by the model
ThresholdPayloads ==
    { [cpu |-> Num(85)],
      [cpu |-> Num(-1)],
      [cpu |-> NotNum] }

\* request.json bodies of POST /api/thresholds that name other keys than cpu,
\* alone or with it
PartialMaps ==
    { [cpu |-> Num(85)],
      [memory |-> Num(0)],
      [memory |-> NotNum],
      [disk |-> Num(0)],
      [disk |-> NotNum],
      [cpu |-> Num(85), response_time |-> Num(0)] }

\* A faulty variant of DictUpdate: the keys the payload does not name go back
\* to their values at construction.
DictUpdateFromDefaults(d, p) ==
    [k \in (DOMAIN d) \cup (DOMAIN p) |->
        IF k \in DOMAIN p THEN p[k]
        ELSE [cpu |-> Num(80), memory |-> Num(80), disk |-> Num(90),
              response_time |-> Num(5)][k]]

\* dict.update: the payload's keys are overwritten or added, the rest is kept
DictUpdate(d, p) ==
    [k \in (DOMAIN d) \cup (DOMAIN p) |-> IF k \in DOMAIN p THEN p[k] ELSE d[k]]

\* _get_system_metrics: a snapshot, or {} when psutil raised (ok = FALSE)
EmptySnapshot == [ok |-> FALSE, cpu_usage |-> 0, memory_usage |-> 0]
Snapshots ==
    { EmptySnapshot,
      [ok |-> TRUE, cpu_usage |-> 75, memory_usage |-> 50],
      [ok |-> TRUE, cpu_usage |-> 85, memory_usage |-> 85] }

\* metrics.get(key, 0)
Get(m, key) == IF m.ok THEN m[key] ELSE 0

\* exception kinds a wrapped body raises in the model
BodyExceptions == {"ValueError"}

\* str.upper(): type(e).__name__.upper(), level.upper()
Upper(name) ==
    CASE name = "ValueError" -> "VALUEERROR"
      [] name = "warning" -> "WARNING"
      [] name = "error" -> "ERROR"
      [] name = "KeyError" -> "KEYERROR"
      [] name = "TypeError" -> "TYPEERROR"
      [] name = "OperationalError" -> "OPERATIONALERROR"
      [] name = "RuntimeError" -> "RUNTIMEERROR"
      [] OTHER -> name

Min(a, b) == IF a <= b THEN a ELSE b
Max(a, b) == IF a >= b THEN a ELSE b

(* ------------------------------- state -------------------------------- *)

VARIABLES
    metrics,      \* the metrics table, rows in rowid (insertion) order
    metricSeq,    \* sqlite_sequence of metrics: the largest id ever assigned
    errors,       \* the errors table, rows in rowid order
    errorSeq,     \* sqlite_sequence of errors
    thresholds,   \* monitor.thresholds
    now,          \* wall clock, in seconds
    invs,         \* the monitor_function invocations started so far
    bg,           \* the background_monitoring thread
    evict,        \* history of _cleanup_old_metrics: its runs since the last
                  \* insert (up to 2), the ids the last run deleted and kept,
                  \* how many the run before it deleted (prior), the ids
                  \* inserted while the current cycle was under way (racing),
                  \* whether the last run had such ids (concurrent), whether
                  \* a row was ever deleted (any)
    events,       \* the events of the environment so far
    reply,        \* the response to the last read or denied request
    api_keys      \* the api_keys table, rows in rowid order

vars == <<metrics, metricSeq, errors, errorSeq, thresholds, now, invs, bg, evict, events, reply,
          api_keys>>

\* endpoints wrapped by monitor_function in the model
FunctionNames == {"get_metrics", "manage_thresholds"}
\* g.api_key of the request
ApiKeys == {"pm_A"}

(* ----------------------------- the store ------------------------------ *)

\* Flask's g is bound only while an application context is pushed: request
\* handlers have one, the background thread has none except inside its
\* `with app.app_context()` block.  In a thread without one, get_connection's
\* `'db_conn' not in g` raises RuntimeError.
HasAppContext(thread) == thread \in {"request", "cleanup"}

\* A faulty variant of NextId: the last id is handed out again.
NextIdRepeating(seq) == IF seq = 0 THEN 1 ELSE seq

\* AUTOINCREMENT: one more than the largest id ever assigned
NextId(seq) == seq + 1

\* A commit may fail (sqlite3.OperationalError: locked, disk I/O, ...):
\* the outcomes a write can have in the current state
WriteOutcomes == IF events < MaxEvents THEN {TRUE, FALSE} ELSE {TRUE}

\* the row INSERT INTO metrics stores for a PerformanceMetrics object
MetricRow(i, end_metrics, execution_time) ==
    [ id |-> NextId(metricSeq),
      created_at |-> now,
      cpu_usage |-> Get(end_metrics, "cpu_usage"),
      memory_usage |-> Get(end_metrics, "memory_usage"),
      execution_time |-> execution_time,
      function_name |-> invs[i].function_name,
      status |-> "completed",
      api_key |-> invs[i].api_key,
      inv |-> i ]

\* the row log_error builds and save_error stores (the columns derived from
\* log_error's own fresh sample, and the texts, are left out)
ErrorRow(i, error_type, level, function_name, api_key) ==
    [ id |-> NextId(errorSeq),
      created_at |-> now,
      level |-> level,
      error_type |-> error_type,
      function_name |-> function_name,
      api_key |-> api_key,
      inv |-> i ]

\* A faulty variant of LogError: the new row takes the place of the table's
\* content.
LogErrorReplacing(i, error_type, level, function_name, api_key, ok) ==
    IF ok
    THEN /\ errors' = <<ErrorRow(i, error_type, level, function_name, api_key)>>
         /\ errorSeq' = NextId(errorSeq)
    ELSE UNCHANGED <<errors, errorSeq>>

\* log_error -> save_error with the write's outcome `ok`; the caller of
\* log_error sees sqlite3.OperationalError when it is FALSE
LogError(i, error_type, level, function_name, api_key, ok) ==
    IF ok
    THEN /\ errors' = Append(errors, ErrorRow(i, error_type, level, function_name, api_key))
         /\ errorSeq' = NextId(errorSeq)
    ELSE UNCHANGED <<errors, errorSeq>>

\* A faulty variant of RetainedIds: the subquery's LIMIT is one too large.
RetainedIdsOneMore(rows, limit) ==
    LET ids == {rows[k].id : k \in 1..Len(rows)}
        at(id) == (CHOOSE k \in 1..Len(rows) : rows[k].id = id)
        created(id) == rows[at(id)].created_at
    IN  { K \in SUBSET ids :
            /\ Cardinality(K) = Min(Len(rows), limit + 1)
            /\ \A k \in K : \A d \in ids \ K : created(k) >= created(d) }

\* A faulty variant of RetainedIds: every run drops the oldest row, whatever
\* the size of the table.
RetainedIdsDropOldest(rows, limit) ==
    LET ids == {rows[k].id : k \in 1..Len(rows)}
        at(id) == (CHOOSE k \in 1..Len(rows) : rows[k].id = id)
        created(id) == rows[at(id)].created_at
    IN  { K \in SUBSET ids :
            /\ Cardinality(K) = Min(IF Len(rows) > 0 THEN Len(rows) - 1 ELSE 0, limit)
            /\ \A k \in K : \A d \in ids \ K : created(k) >= created(d) }

\* the ids `SELECT id FROM metrics ORDER BY created_at DESC LIMIT limit` can
\* return: the newest by created_at; rows with equal created_at come in an
\* order SQL leaves open
RetainedIds(rows, limit) ==
    LET ids == {rows[k].id : k \in 1..Len(rows)}
        at(id) == (CHOOSE k \in 1..Len(rows) : rows[k].id = id)
        created(id) == rows[at(id)].created_at
    IN  { K \in SUBSET ids :
            /\ Cardinality(K) = Min(Len(rows), limit)
            /\ \A k \in K : \A d \in ids \ K : created(k) >= created(d) }

\* DELETE FROM metrics WHERE id NOT IN (K)
DeleteNotIn(rows, K) ==
    LET keep(r) == r.id \in K IN SelectSeq(rows, keep)

(* ------------------------------ api_keys ------------------------------ *)

\* the keys create_api_key made at the process's starts so far
Owners == {"pm_A", "pm_B"}
\* a key whose row an operator has deactivated (the program sets is_active
\* in no statement; the column defaults to 1)
RetiredKeys == {"pm_old"}
\* the tokens secrets.token_urlsafe can still come up with
FreshTokens == {"pm_C", "pm_D"}
\* the argument of validate_api_key: a key with a row, or one without
KeyTokens == Owners \cup RetiredKeys \cup FreshTokens \cup {"pm_bad"}

\* last_used of a row never validated: NULL
Null == 0 - 1

\* werkzeug's generate_password_hash: a salted digest, not the key
GeneratePasswordHash(api_key, salt) == [salt |-> salt, of |-> api_key]

\* werkzeug's check_password_hash(key_hash, api_key)
CheckPasswordHash(key_hash, api_key) == key_hash.of = api_key

\* the row INSERT INTO api_keys (key_hash, key_name) stores as the id-th
KeyRow(id, api_key, key_name, is_active) ==
    [ id |-> id,
      key_hash |-> GeneratePasswordHash(api_key, id),
      key_name |-> key_name,
      last_used |-> Null,
      is_active |-> is_active ]

\* the table after the starts that made Owners
StartupKeys == <<KeyRow(1, "pm_A", "initial_key", 1), KeyRow(2, "pm_B", "initial_key", 1)>>

\* the same table with an older row deactivated by an operator
KeysWithRetired ==
    <<KeyRow(1, "pm_old", "initial_key", 0), KeyRow(2, "pm_A", "initial_key", 1),
      KeyRow(3, "pm_B", "initial_key", 1)>>

\* A faulty variant of ActiveRows: the WHERE clause is left out.
ActiveRowsAll(rows) == 1..Len(rows)

\* SELECT key_hash FROM api_keys WHERE is_active = 1: the rows, by position
ActiveRows(rows) == {k \in 1..Len(rows) : rows[k].is_active = 1}

\* the loop of validate_api_key: the first selected row whose hash the key
\* checks against, 0 when there is none
FirstMatch(rows, api_key) ==
    LET hits == {k \in ActiveRows(rows) : CheckPasswordHash(rows[k].key_hash, api_key)}
    IN  IF hits = {} THEN 0 ELSE CHOOSE k \in hits : \A j \in hits : k <= j

\* UPDATE api_keys SET last_used = CURRENT_TIMESTAMP WHERE key_hash = ?
Touch(rows, key_hash) ==
    [k \in 1..Len(rows) |->
        IF rows[k].key_hash = key_hash THEN [rows[k] EXCEPT !.last_used = now] ELSE rows[k]]

\* what validate_api_key(api_key) leaves in the table
Validated(rows, api_key) ==
    IF FirstMatch(rows, api_key) = 0 THEN rows
    ELSE Touch(rows, rows[FirstMatch(rows, api_key)].key_hash)

(* --------------------------- monitor_function -------------------------- *)

\* A faulty variant of NextStage: the metric is saved before the checks.
NextStageSaveFirst(stage) ==
    CASE stage = "body" -> "save"
      [] stage = "save" -> "cpu"
      [] stage = "cpu" -> "rt"
      [] stage = "rt" -> "done"

\* the order of the steps of _monitor after the body: the finally block
\* checks the cpu threshold, then the response-time threshold, then saves
NextStage(stage) ==
    CASE stage = "body" -> "cpu"
      [] stage = "cpu" -> "rt"
      [] stage = "rt" -> "save"
      [] stage = "save" -> "done"

\* A faulty variant of Exceeds: `>=` in place of `>`.
ExceedsOrEquals(value, limit) ==
    IF ~IsNumber(limit) THEN "TypeError"
    ELSE IF value >= limit.value THEN "yes" ELSE "no"

\* `value > self.thresholds[key]`: "TypeError" when the stored limit is not a
\* number (float > str raises), else whether the limit is exceeded
Exceeds(value, limit) ==
    IF ~IsNumber(limit) THEN "TypeError"
    ELSE IF value > limit.value THEN "yes" ELSE "no"

\* A faulty variant of Limit: the cpu check reads the memory limit.
LimitCpuFromMemory(key) == IF key = "cpu" THEN thresholds["memory"] ELSE thresholds[key]

\* A faulty variant of Limit: the limits held at construction, whatever was
\* stored since.
LimitAtConstruction(key) == DefaultThresholds[key]

\* self.thresholds[key] / monitor.thresholds[key]: the limit a check reads
Limit(key) == thresholds[key]

\* no read or denied request has been answered yet
NoReply ==
    [op |-> "none", status |-> 0, api_key |-> "none", limit |-> 0, level |-> "none",
     rows |-> <<>>]

Constructed ==
    /\ metrics = <<>>
    /\ metricSeq = 0
    /\ errors = <<>>
    /\ errorSeq = 0
    /\ thresholds = DefaultThresholds
    /\ now = 0
    /\ invs = <<>>
    /\ bg = [pc |-> "cycle", e |-> "none", breach |-> FALSE, failures |-> 0,
             sample |-> EmptySnapshot]
    /\ evict = [runs |-> 0, deleted |-> {}, kept |-> {}, prior |-> 0,
                racing |-> {}, concurrent |-> FALSE, any |-> FALSE]
    /\ events = 0
    /\ reply = NoReply

Init == Constructed /\ api_keys = StartupKeys

\* the start on a database file in which one key has been deactivated
InitKeys == Constructed /\ api_keys = KeysWithRetired

\* the clock advances
Tick ==
    /\ events < MaxEvents
    /\ now' = now + TickSeconds
    /\ events' = events + 1
    /\ UNCHANGED <<metrics, metricSeq, errors, errorSeq, thresholds, invs, bg, evict, reply, api_keys>>

\* The request has passed require_api_key (validate_api_key stamped the
\* key's row) and
\* `with monitor.monitor_function(function_name, api_key):` is entered:
\* start_time = time.time(); the start sample is taken and never read.
\* The record holds the locals of _monitor and, as history, what the
\* invocation did: the categories it called log_error with (logged), whether
\* its metric row was committed (saved), whether a write of it failed
\* (fault), whether the write that failed was that of its metric row
\* (dropped), the exception on its way to the caller (exc), and how many
\* invocations were in flight when it entered, itself included (in_flight).
\* new_thresholds is request.json of a POST /api/thresholds.
Enter(function_name, api_key) ==
    /\ Len(invs) < MaxCalls
    /\ invs' = Append(invs,
          [ pc |-> "body", function_name |-> function_name, api_key |-> api_key,
            start_time |-> now, body |-> "running", exc |-> "none",
            end_metrics |-> EmptySnapshot, execution_time |-> 0,
            logged |-> {}, saved |-> FALSE, fault |-> FALSE, dropped |-> FALSE,
            new_thresholds |-> <<>>,
            in_flight |-> 1 + Cardinality({j \in 1..Len(invs) : invs[j].pc # "done"}) ])
    /\ api_keys' = Validated(api_keys, api_key)
    /\ UNCHANGED <<metrics, metricSeq, errors, errorSeq, thresholds, now, bg, evict, events, reply>>

\* the wrapped body returns (for manage_thresholds: the GET branch; the body
\* of get_performance_history is BodyReadsMetrics)
BodyReturns(i) ==
    /\ invs[i].pc = "body"
    /\ invs[i].function_name # "get_performance_history"
    /\ invs' = [invs EXCEPT ![i] = [@ EXCEPT !.pc = NextStage("body"), !.body = "return"]]
    /\ UNCHANGED <<metrics, metricSeq, errors, errorSeq, thresholds, now, bg, evict, events, reply, api_keys>>

\* the wrapped body raises e: `except Exception as e:` logs it at level ERROR
\* under type(e).__name__.upper() and re-raises; a failure of that write
\* propagates in its place (the POST branch of manage_thresholds catches what
\* it raises)
BodyRaises(i, e, ok) ==
    /\ invs[i].pc = "body"
    /\ invs[i].function_name # "manage_thresholds"
    /\ LogError(i, Upper(e), "ERROR", invs[i].function_name, invs[i].api_key, ok)
    /\ invs' = [invs EXCEPT ![i] = [@ EXCEPT
          !.pc = NextStage("body"), !.body = e,
          !.exc = IF ok THEN e ELSE "OperationalError",
          !.fault = ~ok,
          !.logged = @ \cup {Upper(e)}]]
    /\ events' = IF ok THEN events ELSE events + 1
    /\ UNCHANGED <<metrics, metricSeq, thresholds, now, bg, evict, reply, api_keys>>

\* the body of manage_thresholds, POST: monitor.thresholds.update(request.json)
BodyUpdatesThresholds(i, new_thresholds) ==
    /\ invs[i].pc = "body"
    /\ invs[i].function_name = "manage_thresholds"
    /\ thresholds' = DictUpdate(thresholds, new_thresholds)
    /\ invs' = [invs EXCEPT ![i] = [@ EXCEPT !.pc = NextStage("body"), !.body = "return",
                                            !.new_thresholds = new_thresholds]]
    /\ UNCHANGED <<metrics, metricSeq, errors, errorSeq, now, bg, evict, events, reply, api_keys>>

\* A faulty variant of Check: a failure of the breach row's write is
\* swallowed and the finally block goes on with its next statement.
CheckSwallowing(i, r, value, key, error_type, ok) ==
    LET breach == Exceeds(value, Limit(key))
        nokey == breach = "yes" /\ key = "cpu" /\ ~r.end_metrics.ok
        failed == breach = "yes" /\ ~nokey /\ ~ok
    IN  /\ (breach # "yes" \/ nokey) => ok
        /\ IF breach = "yes" /\ ~nokey
           THEN LogError(i, error_type, "WARNING", r.function_name, r.api_key, ok)
           ELSE UNCHANGED <<errors, errorSeq>>
        /\ invs' = [invs EXCEPT ![i] =
              CASE breach = "TypeError" -> [r EXCEPT !.pc = "done", !.exc = "TypeError"]
                [] nokey -> [r EXCEPT !.pc = "done", !.exc = "KeyError"]
                [] failed -> [r EXCEPT !.pc = NextStage(r.pc), !.fault = TRUE,
                                       !.logged = @ \cup {error_type}]
                [] breach = "yes" /\ ok -> [r EXCEPT !.pc = NextStage(r.pc),
                                                     !.logged = @ \cup {error_type}]
                [] OTHER -> [r EXCEPT !.pc = NextStage(r.pc)]]
        /\ events' = IF failed THEN events + 1 ELSE events

\* One threshold check of the finally block, on the invocation record `r`
\* holding the locals: `if value > self.thresholds[key]: self.log_error(...)`.
\* A TypeError of the comparison, or a failure of the write, leaves the block;
\* so does the KeyError of the cpu message, f"...{end_metrics['cpu_usage']:.2f}",
\* which is built before log_error is called and finds no key in the empty
\* snapshot of a failed sample.
Check(i, r, value, key, error_type, ok) ==
    LET breach == Exceeds(value, Limit(key))
        nokey == breach = "yes" /\ key = "cpu" /\ ~r.end_metrics.ok
        failed == breach = "yes" /\ ~nokey /\ ~ok
    IN  /\ (breach # "yes" \/ nokey) => ok
        /\ IF breach = "yes" /\ ~nokey
           THEN LogError(i, error_type, "WARNING", r.function_name, r.api_key, ok)
           ELSE UNCHANGED <<errors, errorSeq>>
        /\ invs' = [invs EXCEPT ![i] =
              CASE breach = "TypeError" -> [r EXCEPT !.pc = "done", !.exc = "TypeError"]
                [] nokey -> [r EXCEPT !.pc = "done", !.exc = "KeyError"]
                [] failed -> [r EXCEPT !.pc = "done", !.exc = "OperationalError",
                                       !.fault = TRUE,
                                       !.logged = @ \cup {error_type}]
                [] breach = "yes" /\ ok -> [r EXCEPT !.pc = NextStage(r.pc),
                                                     !.logged = @ \cup {error_type}]
                [] OTHER -> [r EXCEPT !.pc = NextStage(r.pc)]]
        /\ events' = IF failed THEN events + 1 ELSE events

\* finally: end_time, execution_time, the end sample, and the cpu check
ExitCpu(i, end_metrics, ok) ==
    /\ invs[i].pc = "cpu"
    /\ Check(i, [invs[i] EXCEPT !.end_metrics = end_metrics,
                                !.execution_time = now - invs[i].start_time,
                                !.start_time = 0],
             Get(end_metrics, "cpu_usage"), "cpu", "HIGH_CPU_USAGE", ok)
    /\ UNCHANGED <<metrics, metricSeq, thresholds, now, bg, evict, reply, api_keys>>

\* finally: the response-time check
ExitRt(i, ok) ==
    /\ invs[i].pc = "rt"
    /\ Check(i, invs[i], invs[i].execution_time, "response_time", "SLOW_RESPONSE", ok)
    /\ UNCHANGED <<metrics, metricSeq, thresholds, now, bg, evict, reply, api_keys>>

\* finally: self.db.save_metric(metric); then the body's exception, if any,
\* goes on to the caller
ExitSave(i, ok) ==
    /\ invs[i].pc = "save"
    /\ IF ok
       THEN /\ metrics' = Append(metrics,
                  MetricRow(i, invs[i].end_metrics, invs[i].execution_time))
            /\ metricSeq' = NextId(metricSeq)
            /\ evict' = [evict EXCEPT
                  !.runs = 0, !.deleted = {}, !.kept = {}, !.prior = 0,
                  !.concurrent = FALSE,
                  !.racing = IF bg.pc = "cleanup" THEN @ \cup {NextId(metricSeq)} ELSE @]
       ELSE UNCHANGED <<metrics, metricSeq, evict>>
    /\ invs' = [invs EXCEPT ![i] = [@ EXCEPT
          !.pc = NextStage("save"),
          !.saved = ok,
          !.fault = @ \/ ~ok,
          !.dropped = ~ok,
          !.exc = IF ok THEN @ ELSE "OperationalError"]]
    /\ events' = IF ok THEN events ELSE events + 1
    /\ UNCHANGED <<errors, errorSeq, thresholds, now, bg, reply, api_keys>>

(* --------------------------- DatabaseManager --------------------------- *)

\* save_metric called on its own: INSERT INTO metrics and commit, with the
\* write's outcome `ok` (a failed commit stores nothing and hands out no id)
SaveMetric(m, ok) ==
    /\ metricSeq < MaxRows
    /\ IF ok
       THEN /\ metrics' = Append(metrics,
                  [ id |-> NextId(metricSeq),
                    created_at |-> now,
                    cpu_usage |-> Get(m, "cpu_usage"),
                    memory_usage |-> Get(m, "memory_usage"),
                    execution_time |-> 0,
                    function_name |-> "get_metrics",
                    status |-> "completed",
                    api_key |-> "pm_A",
                    inv |-> 0 ])
            /\ metricSeq' = NextId(metricSeq)
            /\ evict' = [evict EXCEPT
                  !.runs = 0, !.deleted = {}, !.kept = {}, !.prior = 0,
                  !.concurrent = FALSE,
                  !.racing = IF bg.pc = "cleanup" THEN @ \cup {NextId(metricSeq)} ELSE @]
       ELSE UNCHANGED <<metrics, metricSeq, evict>>
    /\ events' = IF ok THEN events ELSE events + 1
    /\ UNCHANGED <<errors, errorSeq, thresholds, now, invs, bg, reply, api_keys>>

\* save_error called on its own: INSERT INTO errors and commit
SaveError(error_type, ok) ==
    /\ errorSeq < MaxRows
    /\ LogError(0, error_type, "ERROR", "get_metrics", "pm_A", ok)
    /\ events' = IF ok THEN events ELSE events + 1
    /\ UNCHANGED <<metrics, metricSeq, thresholds, now, invs, bg, evict, reply, api_keys>>

\* validate_api_key(api_key) called on its own; reply holds its result
ValidateApiKeyCall(api_key) ==
    /\ reply' = [op |-> "validate_api_key", status |-> 0, api_key |-> api_key,
                 limit |-> 0, level |-> "none", rows |-> <<>>,
                 result |-> FirstMatch(api_keys, api_key) # 0]
    /\ api_keys' = Validated(api_keys, api_key)
    /\ UNCHANGED <<metrics, metricSeq, errors, errorSeq, thresholds, now, invs, bg, evict, events>>

\* create_api_key("initial_key") of a start of the process, with the token
\* it drew
CreateApiKey(api_key) ==
    /\ Len(api_keys) < MaxKeys
    /\ \A k \in 1..Len(api_keys) : ~CheckPasswordHash(api_keys[k].key_hash, api_key)
    /\ api_keys' = Append(api_keys, KeyRow(NextId(Len(api_keys)), api_key, "initial_key", 1))
    /\ UNCHANGED <<metrics, metricSeq, errors, errorSeq, thresholds, now, invs, bg, evict, events,
                   reply>>

(* ------------------------ background_monitoring ------------------------ *)

\* what a log_error call of the background thread outside its
\* app_context block does: save_error -> get_connection touches g
BgLogError == IF HasAppContext("background") THEN "saved" ELSE "RuntimeError"

\* the sample and the two threshold checks of a cycle: "ok", or the
\* exception that leaves the try block
BgChecks(m) ==
    LET cpu == Exceeds(Get(m, "cpu_usage"), Limit("cpu"))
        memory == Exceeds(Get(m, "memory_usage"), Limit("memory"))
    IN  CASE cpu = "TypeError" -> "TypeError"
          [] cpu = "yes" /\ ~m.ok -> "KeyError"
          [] cpu = "yes" /\ BgLogError # "saved" -> BgLogError
          [] memory = "TypeError" -> "TypeError"
          [] memory = "yes" /\ ~m.ok -> "KeyError"
          [] memory = "yes" /\ BgLogError # "saved" -> BgLogError
          [] OTHER -> "ok"

\* whether a check of the cycle found its limit exceeded
BgBreach(m) ==
    LET cpu == Exceeds(Get(m, "cpu_usage"), Limit("cpu"))
        memory == Exceeds(Get(m, "memory_usage"), Limit("memory"))
    IN  cpu = "yes" \/ (cpu = "no" /\ memory = "yes")

\* the WARNING rows the checks of a cycle store, in order (none unless the
\* thread has an application context)
BgWarnings(m) ==
    LET cpu == Exceeds(Get(m, "cpu_usage"), Limit("cpu"))
        memory == Exceeds(Get(m, "memory_usage"), Limit("memory"))
    IN  IF BgChecks(m) # "ok" THEN <<>>
        ELSE (IF cpu = "yes" THEN <<"HIGH_CPU_USAGE">> ELSE <<>>)
             \o (IF memory = "yes" THEN <<"HIGH_MEMORY_USAGE">> ELSE <<>>)

\* try: sample, check cpu and memory.  bg records, as history, the sample of
\* the last cycle, whether the cycle found a limit exceeded (breach) and how
\* many cycles failed so far (failures, up to 2).
BgCycle(m) ==
    /\ bg.pc = "cycle"
    /\ LET out == BgChecks(m)
           w == BgWarnings(m)
       IN  /\ bg' = IF out = "ok"
                    THEN [bg EXCEPT !.pc = "cleanup", !.e = "none", !.breach = BgBreach(m),
                                    !.sample = m]
                    ELSE [bg EXCEPT !.pc = "handler", !.e = out, !.breach = BgBreach(m),
                                    !.sample = m, !.failures = Min(@ + 1, 2)]
           /\ errors' = errors \o
                [k \in 1..Len(w) |->
                   [ErrorRow(0, w[k], "WARNING", "background_monitor", "none")
                      EXCEPT !.id = errorSeq + k]]
           /\ errorSeq' = errorSeq + Len(w)
    /\ UNCHANGED <<metrics, metricSeq, thresholds, now, invs, evict, events, reply, api_keys>>

\* try: with app.app_context(): monitor.db._cleanup_old_metrics()
\* K: the ids the subquery returned
BgCleanup(ok, K) ==
    /\ bg.pc = "cleanup"
    /\ IF ok
       THEN /\ K \in RetainedIds(metrics, MAX_HISTORY_RECORDS)
            /\ metrics' = DeleteNotIn(metrics, K)
            /\ evict' = [ runs |-> Min(evict.runs + 1, 2),
                          deleted |-> {metrics[k].id : k \in 1..Len(metrics)} \ K,
                          kept |-> K,
                          prior |-> Cardinality(evict.deleted),
                          racing |-> {},
                          concurrent |-> evict.racing # {},
                          any |-> evict.any \/ Cardinality(K) < Len(metrics) ]
            /\ bg' = [bg EXCEPT !.pc = "sleep", !.e = "none"]
            /\ UNCHANGED events
       ELSE /\ K = {}
            /\ bg' = [bg EXCEPT !.pc = "handler", !.e = "OperationalError",
                                !.failures = Min(@ + 1, 2)]
            /\ events' = events + 1
            /\ UNCHANGED <<metrics, evict>>
    /\ UNCHANGED <<metricSeq, errors, errorSeq, thresholds, now, invs, reply, api_keys>>

\* time.sleep(30), then the next `while True` iteration
BgSleep ==
    /\ bg.pc = "sleep"
    /\ events < MaxEvents
    /\ now' = now + SLEEP_RUNNING
    /\ bg' = [bg EXCEPT !.pc = "cycle", !.e = "none", !.breach = FALSE]
    /\ events' = events + 1
    /\ UNCHANGED <<metrics, metricSeq, errors, errorSeq, thresholds, invs, evict, reply, api_keys>>

\* except Exception as e: monitor.log_error("BACKGROUND_MONITOR_ERROR", ...);
\* time.sleep(60).  The log_error call is outside any try: when it raises,
\* the exception leaves background_monitoring and the thread ends.
BgHandler ==
    /\ bg.pc = "handler"
    /\ IF BgLogError = "saved"
       THEN /\ errors' = Append(errors,
                    ErrorRow(0, "BACKGROUND_MONITOR_ERROR", "ERROR",
                             "background_monitoring", "none"))
            /\ errorSeq' = NextId(errorSeq)
            /\ now' = now + SLEEP_BACKOFF
            /\ bg' = [bg EXCEPT !.pc = "cycle", !.e = "none", !.breach = FALSE]
       ELSE /\ bg' = [bg EXCEPT !.pc = "dead", !.e = BgLogError]
            /\ UNCHANGED <<errors, errorSeq, now>>
    /\ UNCHANGED <<metrics, metricSeq, thresholds, invs, evict, events, reply, api_keys>>

(* ------------------------------ log_error ------------------------------ *)

\* Texts are sequences of their parts: a fixed text is one part, an f-string
\* has one part per literal piece and per interpolated value.

\* the dict `explanations` of _generate_error_explanation
Explanations ==
    [ HIGH_CPU_USAGE |-> <<"CPU usage has exceeded the threshold, indicating intensive processing that may slow down the system.">>,
      HIGH_MEMORY_USAGE |-> <<"Memory usage is critically high, which can lead to system instability and slower performance.">>,
      DISK_SPACE_LOW |-> <<"Available disk space is running low, which can cause write operations to fail.">>,
      SLOW_RESPONSE |-> <<"Function execution time exceeded acceptable limits, indicating performance bottleneck.">>,
      NETWORK_ERROR |-> <<"Network connectivity issue detected, which may affect external API calls or data transfers.">>,
      DATABASE_ERROR |-> <<"Database operation failed, potentially due to connection issues or query problems.">>,
      AUTHENTICATION_ERROR |-> <<"Authentication failed, indicating potential security breach or expired credentials.">>,
      RATE_LIMIT_EXCEEDED |-> <<"Too many requests received in a short time period.">> ]

\* the dict `fixes` of _generate_suggested_fix
Fixes ==
    [ HIGH_CPU_USAGE |-> <<"Consider optimizing algorithms, reducing computational complexity, or scaling horizontally.">>,
      HIGH_MEMORY_USAGE |-> <<"Review memory allocation, implement garbage collection, or increase available RAM.">>,
      DISK_SPACE_LOW |-> <<"Clean up temporary files, archive old logs, or expand storage capacity.">>,
      SLOW_RESPONSE |-> <<"Optimize database queries, implement caching, or consider asynchronous processing.">>,
      NETWORK_ERROR |-> <<"Check network connectivity, implement retry logic, or use circuit breaker pattern.">>,
      AUTHENTICATION_ERROR |-> <<"Verify API key is valid and has not expired.">>,
      RATE_LIMIT_EXCEEDED |-> <<"Reduce request frequency or upgrade to a higher rate limit tier.">> ]

\* explanations.get(error_type, f"An error of type '{error_type}' occurred: {message}")
GenerateErrorExplanation(error_type, message) ==
    IF error_type \in DOMAIN Explanations
    THEN Explanations[error_type]
    ELSE <<"An error of type '", error_type, "' occurred: ", message>>

\* fixes.get(error_type, f"Review the error details and implement appropriate
\* error handling for '{error_type}'.")
GenerateSuggestedFix(error_type, message) ==
    IF error_type \in DOMAIN Fixes
    THEN Fixes[error_type]
    ELSE <<"Review the error details and implement appropriate error handling for '",
           error_type, "'.">>

\* A faulty variant of CalculatePerformanceImpact: the differences are not
\* floored at 0.
CalculatePerformanceImpactUnfloored(m) ==
    [ cpu_impact |-> Get(m, "cpu_usage") - 20,
      memory_impact |-> Get(m, "memory_usage") - 30,
      severity_x20 |-> Min(10 * 20, Get(m, "cpu_usage") + Get(m, "memory_usage")) ]

\* _calculate_performance_impact on the sample m.  The severity
\* min(10, (cpu + memory) / 20) is a float: it is held in twentieths,
\* severity_x20 = 20 * severity = min(200, cpu + memory).
CalculatePerformanceImpact(m) ==
    [ cpu_impact |-> Max(0, Get(m, "cpu_usage") - 20),
      memory_impact |-> Max(0, Get(m, "memory_usage") - 30),
      severity_x20 |-> Min(10 * 20, Get(m, "cpu_usage") + Get(m, "memory_usage")) ]

\* the error_type values of log_error calls tried by the model: the
\* categories the two dicts are about, and one that neither holds
Categories ==
    { "HIGH_CPU_USAGE", "HIGH_MEMORY_USAGE", "DISK_SPACE_LOW", "SLOW_RESPONSE",
      "NETWORK_ERROR", "DATABASE_ERROR", "AUTHENTICATION_ERROR", "RATE_LIMIT_EXCEEDED",
      "FOO_BAR" }
\* the message values tried by the model
Messages == {"timed out", "refused"}
\* the samples log_error's own _get_system_metrics call returns in the model
ImpactSnapshots == Snapshots \cup {[ok |-> TRUE, cpu_usage |-> 120, memory_usage |-> 95]}

\* the ErrorLog object log_error builds, as the row save_error stores: the
\* columns of ErrorRow and the derived ones
ErrorLog(error_type, message, function_name, level, api_key, m) ==
    LET impact == CalculatePerformanceImpact(m)
    IN  [ id |-> NextId(errorSeq),
          created_at |-> now,
          level |-> level,
          error_type |-> error_type,
          message |-> message,
          function_name |-> function_name,
          cpu_impact |-> impact.cpu_impact,
          memory_impact |-> impact.memory_impact,
          severity_x20 |-> impact.severity_x20,
          explanation |-> GenerateErrorExplanation(error_type, message),
          suggested_fix |-> GenerateSuggestedFix(error_type, message),
          api_key |-> api_key,
          inv |-> 0 ]

\* log_error(error_type, message) with its default function_name and level,
\* on a store that accepts the write; m is the sample it takes itself
LogErrorCall(error_type, message, m) ==
    /\ Len(errors) < MaxLogged
    /\ errors' = Append(errors, ErrorLog(error_type, message, "unknown", "ERROR", "none", m))
    /\ errorSeq' = NextId(errorSeq)
    /\ UNCHANGED <<metrics, metricSeq, thresholds, now, invs, bg, evict, events, reply, api_keys>>

(* ------------------------- requests and queries ------------------------ *)

\* the X-API-Key header of a request: an active key, none, or an unknown key
RequestKeys == Owners \cup {"none", "pm_bad"}
\* the endpoints whose denials the model tries
DeniedEndpoints == {"get_metrics", "get_errors"}
\* the ?limit= values tried by the model (type=int accepts any integer)
Limits == {-1, 0, 1, 2}
\* the ?level= values tried by the model ("none": the parameter is absent)
Levels == {"none", "warning"}

\* truth value of an Optional[str]: None and "" are false
Truthy(x) == x \notin {"none", ""}

\* validate_api_key's result: some active row's hash matches the key
ValidateApiKey(api_key) == FirstMatch(api_keys, api_key) # 0

\* A faulty variant of Denied: only a missing key is refused.
DeniedOnlyIfMissing(api_key) == ~Truthy(api_key)

\* require_api_key: `if not api_key` or `if not validate_api_key(api_key)`
Denied(api_key) == ~Truthy(api_key) \/ ~ValidateApiKey(api_key)

\* A faulty variant of OwnerMatches: the owner filter is left out.
OwnerMatchesAny(row, api_key) == TRUE

\* `if api_key: query += ' AND api_key = ?'`
OwnerMatches(row, api_key) == ~Truthy(api_key) \/ row.api_key = api_key

\* `if level: query += ' AND level = ?'` with level.upper()
LevelMatches(row, level) == ~Truthy(level) \/ row.level = Upper(level)

\* `ORDER BY created_at DESC LIMIT limit` over the selected rows: the results
\* the statement can return.  Rows with equal created_at come in an order SQL
\* leaves open; a negative LIMIT is no limit.
NewestFirst(rows, limit) ==
    LET n == Len(rows)
        k == IF limit < 0 THEN n ELSE Min(limit, n)
        picks == { f \in [1..k -> 1..n] :
                     /\ \A a, b \in 1..k : a < b =>
                           /\ f[a] # f[b]
                           /\ rows[f[a]].created_at >= rows[f[b]].created_at
                     /\ \A x \in 1..n : \A a \in 1..k :
                           (\A b \in 1..k : f[b] # x) =>
                               rows[x].created_at <= rows[f[a]].created_at }
    IN  { [j \in 1..k |-> rows[f[j]]] : f \in picks }

\* DatabaseManager.get_errors(limit, level, api_key) on the table `rows`
GetErrors(rows, limit, level, api_key) ==
    LET keep(r) == LevelMatches(r, level) /\ OwnerMatches(r, api_key)
    IN  NewestFirst(SelectSeq(rows, keep), limit)

\* DatabaseManager.get_metrics(limit, api_key) on the table `rows`
GetMetrics(rows, limit, api_key) ==
    LET keep(r) == OwnerMatches(r, api_key)
    IN  NewestFirst(SelectSeq(rows, keep), limit)

\* require_api_key refuses a request to endpoint f: it logs
\* AUTHENTICATION_ERROR at level WARNING under f.__name__, with no api_key,
\* and answers 401 without calling f.  When the write fails the exception
\* leaves the view and the request ends as a 500.
Deny(f, api_key, ok) ==
    /\ Denied(api_key)
    /\ Len(errors) < MaxErrors
    /\ LogError(0, "AUTHENTICATION_ERROR", "WARNING", f, "none", ok)
    /\ reply' = [op |-> f, status |-> IF ok THEN 401 ELSE 500, api_key |-> api_key,
                 limit |-> 0, level |-> "none", rows |-> <<>>]
    /\ events' = IF ok THEN events ELSE events + 1
    /\ UNCHANGED <<metrics, metricSeq, thresholds, now, invs, bg, evict, api_keys>>

\* GET /api/errors?limit=&level= with a valid key:
\* monitor.db.get_errors(limit=limit, level=level, api_key=g.api_key)
ReadErrors(api_key, limit, level) ==
    /\ ~Denied(api_key)
    /\ \E rows \in GetErrors(errors, limit, level, api_key) :
          reply' = [op |-> "get_errors", status |-> 200, api_key |-> api_key,
                    limit |-> limit, level |-> level, rows |-> rows]
    /\ api_keys' = Validated(api_keys, api_key)
    /\ UNCHANGED <<metrics, metricSeq, errors, errorSeq, thresholds, now, invs, bg, evict, events>>

\* the body of get_performance_history:
\* monitor.db.get_metrics(limit=limit, api_key=g.api_key), then it returns
BodyReadsMetrics(i, limit) ==
    /\ invs[i].pc = "body"
    /\ invs[i].function_name = "get_performance_history"
    /\ \E rows \in GetMetrics(metrics, limit, invs[i].api_key) :
          reply' = [op |-> "get_metrics", status |-> 200, api_key |-> invs[i].api_key,
                    limit |-> limit, level |-> "none", rows |-> rows]
    /\ invs' = [invs EXCEPT ![i] = [@ EXCEPT !.pc = NextStage("body"), !.body = "return"]]
    /\ UNCHANGED <<metrics, metricSeq, errors, errorSeq, thresholds, now, bg, evict, events, api_keys>>

\* jsonify(...): the response is built from the result and handed to the
\* client; the server keeps nothing of it
Respond ==
    /\ reply # NoReply
    /\ reply' = NoReply
    /\ UNCHANGED <<metrics, metricSeq, errors, errorSeq, thresholds, now, invs, bg, evict, events, api_keys>>

\* no response is waiting to be handed over
Idle == reply = NoReply

\* every invocation started so far has left monitor_function
AllDone == \A i \in 1..Len(invs) : invs[i].pc = "done"

(* --------------------------- specifications ---------------------------- *)

\* The instrumentation engine: concurrent monitor_function invocations of
\* request threads, threshold updates, storage failures.
Next ==
    \/ Tick
    \/ \E f \in FunctionNames : \E key \in ApiKeys : Enter(f, key)
    \/ \E i \in 1..Len(invs) : BodyReturns(i)
    \/ \E i \in 1..Len(invs) : \E e \in BodyExceptions : \E ok \in WriteOutcomes :
          BodyRaises(i, e, ok)
    \/ \E i \in 1..Len(invs) : \E p \in ThresholdPayloads : BodyUpdatesThresholds(i, p)
    \/ \E i \in 1..Len(invs) : \E m \in Snapshots : \E ok \in WriteOutcomes :
          ExitCpu(i, m, ok)
    \/ \E i \in 1..Len(invs) : \E ok \in WriteOutcomes : ExitRt(i, ok)
    \/ \E i \in 1..Len(invs) : \E ok \in WriteOutcomes : ExitSave(i, ok)

Spec == Init /\ [][Next]_vars

\* the sample of the monitored requests of the retention runs
QuietSnapshot == [ok |-> TRUE, cpu_usage |-> 75, memory_usage |-> 50]

\* The retention store under the background loop: monitored requests write
\* metric rows while background_monitoring samples, evicts and sleeps.
NextRetention ==
    \/ Tick
    \/ \E key \in ApiKeys : Enter("get_metrics", key)
    \/ \E i \in 1..Len(invs) : BodyReturns(i)
    \/ \E i \in 1..Len(invs) : ExitCpu(i, QuietSnapshot, TRUE)
    \/ \E i \in 1..Len(invs) : \E ok \in WriteOutcomes : ExitRt(i, ok)
    \/ \E i \in 1..Len(invs) : \E ok \in WriteOutcomes : ExitSave(i, ok)
    \/ \E m \in Snapshots : BgCycle(m)
    \/ \E ok \in WriteOutcomes : \E K \in SUBSET (1..metricSeq) : BgCleanup(ok, K)
    \/ BgSleep
    \/ BgHandler

SpecRetention == Init /\ [][NextRetention]_vars

\* Threshold updates against the checks that read them: POST /api/thresholds
\* requests, monitored requests and background cycles, on a healthy store.
NextThresholds ==
    \/ \E f \in FunctionNames : \E key \in ApiKeys : Enter(f, key)
    \/ \E i \in 1..Len(invs) : BodyReturns(i)
    \/ \E i \in 1..Len(invs) : \E p \in ThresholdPayloads : BodyUpdatesThresholds(i, p)
    \/ \E i \in 1..Len(invs) : \E m \in Snapshots : ExitCpu(i, m, TRUE)
    \/ \E i \in 1..Len(invs) : ExitRt(i, TRUE)
    \/ \E i \in 1..Len(invs) : ExitSave(i, TRUE)
    \/ \E m \in Snapshots : BgCycle(m)
    \/ \E K \in SUBSET (1..metricSeq) : BgCleanup(TRUE, K)
    \/ BgSleep
    \/ BgHandler

SpecThresholds == Init /\ [][NextThresholds]_vars

\* a write of a monitored request may add a row to the errors table
ErrorsBelowCap == Len(errors) < MaxErrors

\* The protected endpoints and the reads: requests with and without a valid
\* key, monitored requests of two owners that fill the tables, and the
\* queries of GET /api/errors and GET /api/performance.  The runs take the
\* monitored requests one after the other (their interleavings are those of
\* Spec) and hand each response over before the next step.
NextQuery ==
    \/ Respond
    \/ Idle /\ Tick
    \/ \E f \in DeniedEndpoints : \E key \in RequestKeys : \E ok \in WriteOutcomes :
          Idle /\ Deny(f, key, ok)
    \/ \E key \in RequestKeys : \E limit \in Limits : \E level \in Levels :
          Idle /\ ReadErrors(key, limit, level)
    \/ \E key \in RequestKeys :
          Idle /\ ~Denied(key) /\ AllDone /\ Enter("get_performance_history", key)
    \/ \E i \in 1..Len(invs) : \E e \in BodyExceptions :
          Idle /\ ErrorsBelowCap /\ BodyRaises(i, e, TRUE)
    \/ \E i \in 1..Len(invs) : \E limit \in Limits : Idle /\ BodyReadsMetrics(i, limit)
    \/ \E i \in 1..Len(invs) : \E m \in Snapshots \ {EmptySnapshot} :
          Idle /\ ErrorsBelowCap /\ ExitCpu(i, m, TRUE)
    \/ \E i \in 1..Len(invs) : Idle /\ ErrorsBelowCap /\ ExitRt(i, TRUE)
    \/ \E i \in 1..Len(invs) : Idle /\ ExitSave(i, TRUE)

SpecQuery == Init /\ [][NextQuery]_vars

\* log_error and the columns it derives: calls with known and unknown
\* categories, under every sample.
NextDiagnostics ==
    \/ \E error_type \in Categories : \E message \in Messages : \E m \in ImpactSnapshots :
          LogErrorCall(error_type, message, m)

SpecDiagnostics == Init /\ [][NextDiagnostics]_vars

\* Partial threshold updates and what reads them: POST /api/thresholds
\* requests naming any of the keys, monitored requests (one after the other)
\* and a background cycle, on a healthy store.
NextFrame ==
    \/ Tick
    \/ \E f \in FunctionNames : \E key \in ApiKeys : AllDone /\ Enter(f, key)
    \/ \E i \in 1..Len(invs) : BodyReturns(i)
    \/ \E i \in 1..Len(invs) : \E p \in PartialMaps : BodyUpdatesThresholds(i, p)
    \/ \E i \in 1..Len(invs) : \E m \in Snapshots : ExitCpu(i, m, TRUE)
    \/ \E i \in 1..Len(invs) : ExitRt(i, TRUE)
    \/ \E i \in 1..Len(invs) : ExitSave(i, TRUE)
    \/ \E m \in Snapshots : BgCycle(m)
    \/ \E K \in SUBSET (1..metricSeq) : BgCleanup(TRUE, K)
    \/ BgHandler

SpecFrame == Init /\ [][NextFrame]_vars

\* The two tables on their own: inserts of metric and error rows, the clock,
\* and the background loop's evictions in between.
NextStore ==
    \/ Tick
    \/ \E ok \in WriteOutcomes : SaveMetric(QuietSnapshot, ok)
    \/ \E ok \in WriteOutcomes : SaveError("VALUEERROR", ok)
    \/ BgCycle(QuietSnapshot)
    \/ \E K \in SUBSET (1..metricSeq) : BgCleanup(TRUE, K)
    \/ BgSleep

SpecStore == Init /\ [][NextStore]_vars

\* The key table on its own: validations of keys with an active row, a
\* deactivated row or no row, the clock, and keys made by later starts.
NextKeys ==
    \/ Tick
    \/ \E api_key \in KeyTokens : ValidateApiKeyCall(api_key)
    \/ \E api_key \in FreshTokens : CreateApiKey(api_key)

SpecKeys == InitKeys /\ [][NextKeys]_vars

(* ----------------------------- properties ------------------------------ *)

\* the rows of the metrics table written by invocation i
MetricsOf(i) == {k \in 1..Len(metrics) : metrics[k].inv = i}
\* the rows of the errors table written by invocation i
ErrorsOf(i) == {k \in 1..Len(errors) : errors[k].inv = i}
\* no write of an invocation failed
NoStorageFailure == \A i \in 1..Len(invs) : ~invs[i].fault
\* the threshold-breach categories of monitor_function
BreachTypes == {"HIGH_CPU_USAGE", "SLOW_RESPONSE"}

\* C1: when N monitor_function invocations have finished, with no storage
\* failure and no eviction, the metrics table holds exactly N rows, one per
\* invocation, each with status "completed" and execution_time >= 0.
C1_OneMetricPerInvocation ==
    (AllDone /\ NoStorageFailure /\ ~evict.any) =>
        /\ Len(metrics) = Len(invs)
        /\ \A i \in 1..Len(invs) : Cardinality(MetricsOf(i)) = 1
        /\ \A k \in 1..Len(metrics) :
              metrics[k].status = "completed" /\ metrics[k].execution_time >= 0

\* C2: an invocation whose body raised (no storage failure) hands the same
\* failure to its caller, and has stored exactly one ERROR row, whose category
\* is the upper-cased exception type name, and exactly one metric row.
C2_BodyFailureRecordedAndPropagated ==
    \A i \in 1..Len(invs) :
        (invs[i].pc = "done" /\ invs[i].body \in BodyExceptions /\ ~invs[i].fault) =>
            /\ invs[i].exc = invs[i].body
            /\ Cardinality({k \in ErrorsOf(i) : errors[k].level = "ERROR"}) = 1
            /\ \A k \in ErrorsOf(i) :
                  errors[k].level = "ERROR" => errors[k].error_type = Upper(invs[i].body)
            /\ Cardinality(MetricsOf(i)) = 1

\* C3: the background monitoring loop never terminates: whatever a cycle
\* raises, the thread is still running.
C3_BackgroundLoopNeverEnds == bg.pc # "dead"

\* C4 as stated: the metrics table never holds more than MAX_HISTORY_RECORDS
\* rows.
C4_NeverAboveCap == Len(metrics) <= MAX_HISTORY_RECORDS

\* C4, amended: once _cleanup_old_metrics has committed, and until the next
\* insert, the metrics table holds at most MAX_HISTORY_RECORDS rows.
C4_AtMostCapAfterEviction ==
    evict.runs >= 1 => Len(metrics) <= MAX_HISTORY_RECORDS

\* an eviction has cut a table that was above the cap down to the cap
C4_Witness ==
    /\ evict.runs >= 1
    /\ evict.deleted # {}
    /\ Len(metrics) = MAX_HISTORY_RECORDS

\* C5: after an eviction exactly min(n, MAX_HISTORY_RECORDS) of the n rows
\* remain and they are the most recently inserted ones, rows sharing a
\* created_at included: every retained row was inserted after every deleted
\* row (ids grow with insertion).
C5_EvictionKeepsMostRecentlyInserted ==
    evict.runs >= 1 =>
        /\ Cardinality(evict.kept) =
              Min(Cardinality(evict.kept \cup evict.deleted), MAX_HISTORY_RECORDS)
        /\ \A k \in evict.kept : \A d \in evict.deleted : k > d

\* C6: eviction is idempotent: a second run with no insert in between deletes
\* nothing and leaves the table as the first run left it.
C6_EvictionIdempotent ==
    evict.runs >= 2 =>
        /\ evict.deleted = {}
        /\ evict.kept = {metrics[k].id : k \in 1..Len(metrics)}

\* a run that deleted rows was followed by a second run, no insert in between
C6_Witness == evict.runs >= 2 /\ evict.prior > 0

\* C7: an eviction that ran while inserts were committed during its cycle
\* never deletes a row inserted after a row it retains, so no row inserted
\* concurrently is lost in favour of an older one.
C7_ConcurrentEvictionKeepsNewer ==
    (evict.runs >= 1 /\ evict.concurrent) =>
        \A d \in evict.deleted : \A k \in evict.kept : d < k

\* C8: K invocations that were in flight together, all finished with no
\* storage failure, have produced exactly K metric rows with pairwise distinct
\* ids.
C8_ConcurrentInvocationsAllStored ==
    LET K == Len(invs)
    IN  (K >= 2 /\ AllDone /\ NoStorageFailure /\ invs[K].in_flight = K) =>
            /\ Len(metrics) = K
            /\ \A a, b \in 1..Len(metrics) : a # b => metrics[a].id # metrics[b].id

\* C9: within one invocation every threshold-breach row is committed before
\* the metric row: while a check is still ahead the invocation has no metric
\* row, and once it has one, every breach it logged is in the errors table,
\* stored no later than the metric row.
C9_BreachRowsBeforeMetricRow ==
    \A i \in 1..Len(invs) :
        /\ invs[i].pc \in {"body", "cpu", "rt"} => MetricsOf(i) = {}
        /\ \A m \in MetricsOf(i) : \A c \in invs[i].logged \cap BreachTypes :
              \E k \in ErrorsOf(i) :
                  /\ errors[k].error_type = c
                  /\ errors[k].level = "WARNING"
                  /\ errors[k].created_at <= metrics[m].created_at

\* an invocation that logged a breach has stored its metric row
C9_Witness ==
    \E i \in 1..Len(invs) :
        /\ MetricsOf(i) # {}
        /\ invs[i].logged \cap BreachTypes # {}
        /\ \E k \in ErrorsOf(i) : errors[k].error_type \in BreachTypes

\* C10: the cpu check of monitor_function logs a WARNING row of category
\* HIGH_CPU_USAGE exactly when the sampled cpu percentage is strictly above
\* thresholds['cpu'] (85 against 80 logs, 75 against 80 does not); when the
\* write succeeds the row is appended to the errors table, and with no breach
\* the table is left alone.
C10_HighCpuIffAboveThreshold ==
    [][\A i \in 1..Len(invs) :
          (invs[i].pc = "cpu" /\ invs'[i].pc # "cpu") =>
              LET cpu == Get(invs'[i].end_metrics, "cpu_usage")
                  above == /\ invs'[i].end_metrics.ok
                           /\ IsNumber(thresholds["cpu"])
                           /\ cpu > thresholds["cpu"].value
                  warning == [ id |-> errorSeq + 1,
                               created_at |-> now,
                               level |-> "WARNING",
                               error_type |-> "HIGH_CPU_USAGE",
                               function_name |-> invs[i].function_name,
                               api_key |-> invs[i].api_key,
                               inv |-> i ]
              IN  /\ above <=> "HIGH_CPU_USAGE" \in invs'[i].logged
                  /\ (above /\ events' = events) => errors' = Append(errors, warning)
                  /\ ~above => errors' = errors
                  /\ (cpu = 85 /\ thresholds["cpu"] = Num(80)) =>
                        "HIGH_CPU_USAGE" \in invs'[i].logged
                  /\ (cpu = 75 /\ thresholds["cpu"] = Num(80)) =>
                        "HIGH_CPU_USAGE" \notin invs'[i].logged
      ]_vars

\* under the threshold 80, one invocation sampled 85 and stored the warning,
\* another sampled 75 and logged none
C10_Witness ==
    /\ thresholds["cpu"] = Num(80)
    /\ \E i, j \in 1..Len(invs) :
          /\ invs[i].pc \in {"rt", "save", "done"}
          /\ Get(invs[i].end_metrics, "cpu_usage") = 85
          /\ \E k \in ErrorsOf(i) :
                errors[k].error_type = "HIGH_CPU_USAGE" /\ errors[k].level = "WARNING"
          /\ invs[j].pc \in {"rt", "save", "done"}
          /\ Get(invs[j].end_metrics, "cpu_usage") = 75
          /\ "HIGH_CPU_USAGE" \notin invs[j].logged

\* C11: an invocation that has left monitor_function (no storage failure) has
\* logged SLOW_RESPONSE exactly when its execution_time, end time minus start
\* time, is greater than thresholds['response_time'], whether its body
\* returned or raised.
C11_SlowResponseIffAboveThreshold ==
    \A i \in 1..Len(invs) :
        (invs[i].pc = "done" /\ ~invs[i].fault /\ IsNumber(thresholds["response_time"])) =>
            ("SLOW_RESPONSE" \in invs[i].logged
                <=> invs[i].execution_time > thresholds["response_time"].value)

\* C12: a background cycle that found cpu or memory above its threshold (and
\* met no storage failure) has persisted a WARNING row with function_name
\* 'background_monitor' and has gone on to run the eviction of that cycle.
C12_BackgroundBreachLoggedThenEvicts ==
    (bg.breach /\ bg.pc \notin {"cycle", "cleanup"} /\ bg.e # "OperationalError") =>
        /\ \E k \in 1..Len(errors) :
              errors[k].function_name = "background_monitor" /\ errors[k].level = "WARNING"
        /\ bg.pc = "sleep"

\* C13: once the handling of a failed background cycle is over, one
\* BACKGROUND_MONITOR_ERROR row per failed cycle is persisted and the loop is
\* alive, on its way through the backoff sleep to a new cycle.
C13_FailedCycleLoggedThenRetried ==
    (bg.failures >= 1 /\ bg.pc # "handler") =>
        /\ Cardinality({k \in 1..Len(errors) :
                          errors[k].error_type = "BACKGROUND_MONITOR_ERROR"}) = bg.failures
        /\ bg.pc \in {"cycle", "cleanup", "sleep"}

\* C16: no step changes a row that is already stored, the errors table only
\* grows (every step leaves the old table as a prefix of the new one), and a
\* metric row disappears only in the eviction step of the background loop,
\* which leaves the errors table alone.
C16_RowsImmutableErrorsNeverShrink ==
    [][/\ Len(errors') >= Len(errors)
       /\ SubSeq(errors', 1, Len(errors)) = errors
       /\ \A k \in 1..Len(metrics') :
             metrics'[k].id <= metricSeq =>
                 \E j \in 1..Len(metrics) : metrics[j] = metrics'[k]
       /\ (\E j \in 1..Len(metrics) :
              \A k \in 1..Len(metrics') : metrics'[k].id # metrics[j].id) =>
             /\ bg.pc = "cleanup"
             /\ bg'.pc = "sleep"
             /\ errors' = errors
      ]_vars

\* error rows are stored, and an eviction has deleted a metric row
C16_Witness ==
    /\ Len(errors) >= 2
    /\ evict.any
    /\ Len(metrics) >= 1

\* C17: an invocation whose end sample failed (empty snapshot), with numeric
\* thresholds and no storage failure, still hands the outcome of its body to
\* the caller and has stored one metric row, with zeroed resource fields.
C17_SamplerFailureNeverAborts ==
    \A i \in 1..Len(invs) :
        (/\ invs[i].pc = "done"
         /\ ~invs[i].end_metrics.ok
         /\ ~invs[i].fault
         /\ invs[i].exc # "TypeError") =>
            /\ invs[i].exc = (IF invs[i].body \in BodyExceptions THEN invs[i].body ELSE "none")
            /\ Cardinality(MetricsOf(i)) = 1
            /\ \A k \in MetricsOf(i) :
                  metrics[k].cpu_usage = 0 /\ metrics[k].memory_usage = 0

C19_ChecksUseUpdatedThresholds ==
    [][/\ \A i \in 1..Len(invs) :
             (invs[i].pc = "body" /\ invs'[i].new_thresholds # <<>>) =>
                 \A k \in DOMAIN thresholds' :
                     thresholds'[k] = IF k \in DOMAIN invs'[i].new_thresholds
                                      THEN invs'[i].new_thresholds[k]
                                      ELSE thresholds[k]
       /\ (\A i \in 1..Len(invs) : invs'[i].new_thresholds = invs[i].new_thresholds) =>
             thresholds' = thresholds
       /\ \A i \in 1..Len(invs) :
             (invs[i].pc = "cpu" /\ invs'[i].pc # "cpu") =>
                 LET m == invs'[i].end_metrics
                     limit == thresholds["cpu"]
                 IN  /\ invs'[i].exc = "TypeError" <=> ~IsNumber(limit)
                     /\ "HIGH_CPU_USAGE" \in invs'[i].logged <=>
                           (m.ok /\ IsNumber(limit) /\ m.cpu_usage > limit.value)
       /\ \A i \in 1..Len(invs) :
             (invs[i].pc = "rt" /\ invs'[i].pc # "rt") =>
                 LET limit == thresholds["response_time"]
                 IN  "SLOW_RESPONSE" \in invs'[i].logged <=>
                         (IsNumber(limit) /\ invs[i].execution_time > limit.value)
       /\ (bg.pc = "cycle" /\ bg'.pc # "cycle") =>
             LET m == bg'.sample
                 cpu == thresholds["cpu"]
                 memory == thresholds["memory"]
             IN  /\ bg'.e = "TypeError" <=>
                       \/ ~IsNumber(cpu)
                       \/ (Get(m, "cpu_usage") <= cpu.value /\ ~IsNumber(memory))
                 /\ bg'.breach <=>
                       /\ IsNumber(cpu)
                       /\ \/ Get(m, "cpu_usage") > cpu.value
                          \/ (IsNumber(memory) /\ Get(m, "memory_usage") > memory.value)
      ]_vars

\* an update raised the cpu limit to 85 and completed; an invocation that
\* started afterwards sampled 85 and logged no breach, and a background cycle
\* has run under the new limit
C19_Witness ==
    /\ thresholds["cpu"] = Num(85)
    /\ bg.pc \in {"cleanup", "sleep"}
    /\ bg.sample.ok
    /\ \E i, j \in 1..Len(invs) :
          /\ i < j
          /\ invs[i].new_thresholds = [cpu |-> Num(85)]
          /\ invs[j].in_flight = 1
          /\ invs[j].pc \in {"rt", "save", "done"}
          /\ invs[j].end_metrics.ok
          /\ invs[j].end_metrics.cpu_usage = 85
          /\ "HIGH_CPU_USAGE" \notin invs[j].logged

\* C14: a get_errors read with a positive limit returns only rows whose level equals the requested
\* level compared case-insensitively, at most limit of them, most recently
\* inserted first (ids grow with insertion), and they are the newest of the
\* matching rows: no matching row inserted after a returned row is left out.
C14_GetErrorsNewestFirst ==
    [][(reply' # reply /\ reply'.op = "get_errors" /\ reply'.status = 200
            /\ reply'.limit > 0) =>
          LET rows == reply'.rows
              level == reply'.level
              match == {k \in 1..Len(errors) :
                          /\ errors[k].api_key = reply'.api_key
                          /\ level # "none" => Upper(errors[k].level) = Upper(level)}
          IN  /\ \A j \in 1..Len(rows) :
                    level # "none" => Upper(rows[j].level) = Upper(level)
              /\ Len(rows) <= reply'.limit
              /\ Len(rows) = Min(reply'.limit, Cardinality(match))
              /\ \A a, b \in 1..Len(rows) : a < b => rows[a].id > rows[b].id
              /\ \A j \in 1..Len(rows) : \A k \in match :
                    errors[k].id > rows[j].id => \E a \in 1..Len(rows) : rows[a] = errors[k]
      ]_vars

\* C15: a read with an owner key returns only rows of that owner, and what it
\* can return is what it could return from a table holding that owner's rows
\* alone: rows of other owners and rows with no key do not change the result.
C15_ReadsReturnOnlyOwnRows ==
    [][(reply' # reply /\ reply'.status = 200) =>
          LET key == reply'.api_key
              own(r) == r.api_key = key
          IN  /\ \A j \in 1..Len(reply'.rows) : reply'.rows[j].api_key = key
              /\ reply'.op = "get_errors" =>
                    /\ reply'.rows \in
                          GetErrors(SelectSeq(errors, own), reply'.limit, reply'.level, key)
                    /\ GetErrors(errors, reply'.limit, reply'.level, key) =
                          GetErrors(SelectSeq(errors, own), reply'.limit, reply'.level, key)
              /\ reply'.op = "get_metrics" =>
                    /\ reply'.rows \in GetMetrics(SelectSeq(metrics, own), reply'.limit, key)
                    /\ GetMetrics(metrics, reply'.limit, key) =
                          GetMetrics(SelectSeq(metrics, own), reply'.limit, key)
      ]_vars

\* owner pm_A has read its error rows while the table also held a row of
\* pm_B and a row with no key
C15_Witness ==
    /\ reply.op = "get_errors"
    /\ reply.status = 200
    /\ reply.api_key = "pm_A"
    /\ reply.level = "none"
    /\ Len(reply.rows) >= 1
    /\ \E k \in 1..Len(errors) : errors[k].api_key = "pm_B"
    /\ \E k \in 1..Len(errors) : errors[k].api_key = "none"

\* C20: a request whose key is missing or not valid is answered 401 and, the
\* store accepting the write, exactly one row is appended to the errors table,
\* a WARNING of category AUTHENTICATION_ERROR; the step starts no invocation
\* and writes no metric row, and no invocation or metric row ever carries a
\* key that is not valid.
C20_DeniedRequestLoggedNotRun ==
    [][/\ (reply' # reply /\ reply' # NoReply /\ reply'.api_key \notin Owners) =>
             /\ reply'.status = 401 \/ events' > events
             /\ events' = events =>
                   /\ reply'.status = 401
                   /\ errors' = Append(errors,
                         [ id |-> errorSeq + 1,
                           created_at |-> now,
                           level |-> "WARNING",
                           error_type |-> "AUTHENTICATION_ERROR",
                           function_name |-> reply'.op,
                           api_key |-> "none",
                           inv |-> 0 ])
             /\ metrics' = metrics
             /\ invs' = invs
       /\ \A i \in 1..Len(invs') : invs'[i].api_key \in Owners
       /\ \A k \in 1..Len(metrics') : metrics'[k].api_key \in Owners
      ]_vars

\* a request with an unknown key has been answered 401 and its warning is the
\* last row of the errors table, after the warning of a request with no key
C20_Witness ==
    /\ reply.status = 401
    /\ reply.api_key = "pm_bad"
    /\ Len(errors) >= 2
    /\ \A k \in 1..Len(errors) :
          /\ errors[k].error_type = "AUTHENTICATION_ERROR"
          /\ errors[k].level = "WARNING"
    /\ errors[Len(errors)].function_name = reply.op
    /\ metrics = <<>>

\* the eight categories both lookups are to have an entry for
CatalogCategories ==
    { "HIGH_CPU_USAGE", "HIGH_MEMORY_USAGE", "DISK_SPACE_LOW", "SLOW_RESPONSE",
      "NETWORK_ERROR", "DATABASE_ERROR", "AUTHENTICATION_ERROR", "RATE_LIMIT_EXCEEDED" }

\* C21: for a category outside the catalog the explanation and the suggested
\* fix of a stored row are non-empty, and two rows with the same such
\* category carry the same explanation and the same suggested fix, whatever
\* their messages.
C21_UnknownCategoryTextsFromCategoryAlone ==
    \A a, b \in 1..Len(errors) :
        (errors[a].error_type \notin CatalogCategories
            /\ errors[a].error_type = errors[b].error_type) =>
            /\ errors[a].explanation # <<>>
            /\ errors[a].suggested_fix # <<>>
            /\ errors[a].explanation = errors[b].explanation
            /\ errors[a].suggested_fix = errors[b].suggested_fix

\* C22: a stored row of one of the eight catalog categories carries neither
\* the unknown-category explanation nor the unknown-category suggested fix.
C22_CatalogCategoriesHaveOwnEntries ==
    \A k \in 1..Len(errors) :
        errors[k].error_type \in CatalogCategories =>
            /\ errors[k].explanation #
                  <<"An error of type '", errors[k].error_type, "' occurred: ",
                    errors[k].message>>
            /\ errors[k].suggested_fix #
                  <<"Review the error details and implement appropriate error handling for '",
                    errors[k].error_type, "'.">>

\* C23: every stored error row has cpu_impact = max(0, cpu - 20),
\* memory_impact = max(0, memory - 30) and severity = min(10, (cpu + memory) / 20)
\* (in twentieths: min(200, cpu + memory)) for the cpu and memory of one
\* sample, 0 and 0 for the empty snapshot; so both impacts are >= 0 and the
\* severity is within 0..10.
C23_ImpactAndSeverityFromOneSample ==
    \A k \in 1..Len(errors) :
        /\ \E m \in ImpactSnapshots :
              LET cpu == IF m.ok THEN m.cpu_usage ELSE 0
                  memory == IF m.ok THEN m.memory_usage ELSE 0
              IN  /\ errors[k].cpu_impact = (IF cpu - 20 > 0 THEN cpu - 20 ELSE 0)
                  /\ errors[k].memory_impact = (IF memory - 30 > 0 THEN memory - 30 ELSE 0)
                  /\ errors[k].severity_x20 =
                        (IF cpu + memory < 200 THEN cpu + memory ELSE 200)
        /\ errors[k].cpu_impact >= 0
        /\ errors[k].memory_impact >= 0
        /\ errors[k].severity_x20 >= 0
        /\ errors[k].severity_x20 <= 200

\* one row was written under the empty snapshot of a failed sample, another
\* under a sample whose severity is cut at 10
C23_Witness ==
    /\ Len(errors) = 2
    /\ errors[1].cpu_impact = 0 /\ errors[1].memory_impact = 0 /\ errors[1].severity_x20 = 0
    /\ errors[2].cpu_impact = 100 /\ errors[2].memory_impact = 65
    /\ errors[2].severity_x20 = 200

\* C24: a read never returns more rows than its limit: at most limit rows
\* for a positive limit, and none for a limit that is zero or negative.
C24_ReadsBoundedByLimit ==
    (reply.status = 200 /\ reply.op \in {"get_errors", "get_metrics"}) =>
        Len(reply.rows) <= Max(reply.limit, 0)

\* C25: whatever updates were made, thresholds maps each of cpu, memory, disk
\* and response_time to a number.
C25_ThresholdsStayNumeric ==
    \A k \in {"cpu", "memory", "disk", "response_time"} :
        k \in DOMAIN thresholds /\ IsNumber(thresholds[k])

\* C26: a threshold update is a merge: the keys of its payload take the
\* payload's values, every other key keeps its value, and no key is lost; an
\* update of cpu alone on the defaults leaves memory, disk and response_time
\* at 80, 90 and 5.
C26_ThresholdUpdateIsMerge ==
    [][\A i \in 1..Len(invs) :
          (invs[i].pc = "body" /\ invs'[i].new_thresholds # <<>>) =>
              LET p == invs'[i].new_thresholds
              IN  /\ DOMAIN thresholds' = (DOMAIN thresholds) \cup (DOMAIN p)
                  /\ \A k \in DOMAIN p : thresholds'[k] = p[k]
                  /\ \A k \in (DOMAIN thresholds) \ (DOMAIN p) : thresholds'[k] = thresholds[k]
                  /\ (thresholds = DefaultThresholds /\ DOMAIN p = {"cpu"}) =>
                        /\ thresholds'["memory"] = Num(80)
                        /\ thresholds'["disk"] = Num(90)
                        /\ thresholds'["response_time"] = Num(5)
      ]_vars

\* an update of memory was followed by an update of cpu alone, and memory
\* still has the value of the first update
C26_Witness ==
    /\ Len(invs) = 2
    /\ invs[1].new_thresholds = [memory |-> Num(0)]
    /\ invs[2].new_thresholds = [cpu |-> Num(85)]
    /\ thresholds = [cpu |-> Num(85), memory |-> Num(0), disk |-> Num(90),
                     response_time |-> Num(5)]

\* What the last invocation, once done, logged, raised and saved, as a
\* function of its end sample, its execution time and the cpu and
\* response_time limits (requests run one after the other, so the limits are
\* those its checks read); and the categories of the stored rows.
InvocationOutcomeFromCpuAndResponseTime ==
    /\ \A k \in 1..Len(errors) :
          /\ errors[k].error_type # "DISK_SPACE_LOW"
          /\ errors[k].inv # 0 => errors[k].error_type \in BreachTypes
    /\ (invs # <<>> /\ invs[Len(invs)].pc = "done") =>
          LET i == Len(invs)
              m == invs[i].end_metrics
              c == thresholds["cpu"]
              t == thresholds["response_time"]
              cpuBreach == IsNumber(c) /\ Get(m, "cpu_usage") > c.value
              cpuLeaves == ~IsNumber(c) \/ (cpuBreach /\ ~m.ok)
              rtBreach == ~cpuLeaves /\ IsNumber(t) /\ invs[i].execution_time > t.value
              rtLeaves == ~cpuLeaves /\ ~IsNumber(t)
          IN  /\ invs[i].logged =
                    (IF cpuBreach /\ m.ok THEN {"HIGH_CPU_USAGE"} ELSE {})
                    \cup (IF rtBreach THEN {"SLOW_RESPONSE"} ELSE {})
              /\ {errors[k].error_type : k \in ErrorsOf(i)} = invs[i].logged
              /\ Cardinality(ErrorsOf(i)) = Cardinality(invs[i].logged)
              /\ invs[i].exc = (IF ~IsNumber(c) \/ rtLeaves THEN "TypeError"
                                ELSE IF cpuLeaves THEN "KeyError" ELSE "none")
              /\ invs[i].saved <=> ~(cpuLeaves \/ rtLeaves)

\* C29: monitor_function evaluates the cpu and response_time limits only:
\* what an invocation logs, raises and saves is a function of its end sample,
\* its execution time and those two limits, whatever thresholds["memory"] and
\* thresholds["disk"] hold; an invocation writes breach rows of the two
\* categories only; a background cycle fails on a limit that is not a number
\* only when that limit is cpu or memory; and no row has the category
\* DISK_SPACE_LOW.
C29_OnlyCpuAndResponseTimeEvaluated ==
    [][/\ InvocationOutcomeFromCpuAndResponseTime'
       /\ (bg.pc = "cycle" /\ bg'.pc # "cycle" /\ bg'.e = "TypeError") =>
             (~IsNumber(thresholds["cpu"]) \/ ~IsNumber(thresholds["memory"]))
      ]_vars

\* the memory limit was set to a value that is not a number; the next
\* invocation sampled 85 % cpu and 85 % memory, logged the cpu breach alone
\* and saved its metric
C29_Witness ==
    /\ Len(invs) = 2
    /\ invs[1].new_thresholds = [memory |-> NotNum]
    /\ ~IsNumber(thresholds["memory"])
    /\ invs[2].pc = "done"
    /\ invs[2].end_metrics.ok
    /\ invs[2].end_metrics.memory_usage = 85
    /\ invs[2].logged = {"HIGH_CPU_USAGE"}
    /\ invs[2].saved

\* C30: when the write of a breach row fails in the finally block of
\* monitor_function, the invocation ends there with the write's exception in
\* place of the body's outcome (its return, or the exception it raised), the
\* step stores nothing, and no metric row of that invocation is ever stored.
C30_BreachWriteFailurePropagates ==
    [][\A i \in 1..Len(invs) :
          /\ (invs[i].pc \in {"cpu", "rt"} /\ invs'[i] # invs[i] /\ events' > events) =>
                /\ invs'[i].pc = "done"
                /\ invs'[i].exc = "OperationalError"
                /\ invs'[i].exc # invs'[i].body
                /\ ~invs'[i].saved
                /\ invs'[i].logged \cap BreachTypes # {}
                /\ metrics' = metrics
                /\ errors' = errors
          /\ (invs[i].pc = "done" /\ ~invs[i].saved) =>
                /\ invs'[i] = invs[i]
                /\ \A k \in 1..Len(metrics') : metrics'[k].inv # i
      ]_vars

\* the body raised, its row was stored, and the write of the breach row
\* failed: the invocation ended with the write's exception and without a
\* metric row
C30_Witness ==
    \E i \in 1..Len(invs) :
        /\ invs[i].pc = "done"
        /\ invs[i].body \in BodyExceptions
        /\ invs[i].exc = "OperationalError"
        /\ invs[i].fault
        /\ ~invs[i].dropped
        /\ ~invs[i].saved
        /\ invs[i].logged \cap BreachTypes # {}
        /\ Cardinality(ErrorsOf(i)) = 1
        /\ MetricsOf(i) = {}

\* C27: ids are assigned in strictly increasing insertion order and a freed
\* id is never assigned again: a row that a step inserts (a row with an id
\* the table did not hold, or the last row of a table that grew) is appended, its id
\* is greater than every id in its table, greater than the largest id the
\* table ever assigned (which never decreases and bounds every id stored), and
\* is none of the ids the last eviction deleted.
C27_IdsStrictlyIncreasing ==
    [][/\ metricSeq' >= metricSeq
       /\ errorSeq' >= errorSeq
       /\ \A j \in 1..Len(metrics) : metrics[j].id <= metricSeq
       /\ \A j \in 1..Len(errors) : errors[j].id <= errorSeq
       /\ \A k \in 1..Len(metrics') :
             (\/ \A j \in 1..Len(metrics) : metrics[j].id # metrics'[k].id
              \/ (Len(metrics') > Len(metrics) /\ k = Len(metrics'))) =>
                 /\ k = Len(metrics')
                 /\ metrics'[k].id > metricSeq
                 /\ metrics'[k].id <= metricSeq'
                 /\ metrics'[k].id \notin evict.deleted
                 /\ \A j \in 1..Len(metrics) : metrics[j].id < metrics'[k].id
       /\ \A k \in 1..Len(errors') :
             (\/ \A j \in 1..Len(errors) : errors[j].id # errors'[k].id
              \/ (Len(errors') > Len(errors) /\ k = Len(errors'))) =>
                 /\ k = Len(errors')
                 /\ errors'[k].id > errorSeq
                 /\ errors'[k].id <= errorSeq'
                 /\ \A j \in 1..Len(errors) : errors[j].id < errors'[k].id
      ]_vars

\* ids 1 and 2 were inserted at the same time, the eviction kept 1 and
\* deleted 2, the newest id, and the next insert got 3
C27_Witness ==
    /\ metricSeq = 3
    /\ Len(metrics) = 2
    /\ metrics[1].id = 1
    /\ metrics[2].id = 3
    /\ errorSeq >= 2

\* C28: validate_api_key returns true exactly when the key checks against the
\* hash of some active row; it then sets last_used of that row to the current
\* time and changes no other row and no other column; when it returns false
\* (no row matches, or the matching row is inactive) the table is unchanged;
\* in both cases nothing else of the store changes.
C28_ValidateThenTouchActiveOnly ==
    [][(/\ reply'.op = "validate_api_key"
        /\ now' = now
        /\ Len(api_keys') = Len(api_keys)
        /\ <<reply, api_keys>>' # <<reply, api_keys>>) =>
          LET api_key == reply'.api_key
              matching == {k \in 1..Len(api_keys) :
                             /\ api_keys[k].is_active = 1
                             /\ api_keys[k].key_hash.of = api_key}
          IN  /\ reply'.result <=> matching # {}
              /\ reply'.result =>
                    \E k \in matching :
                        api_keys' = [api_keys EXCEPT ![k].last_used = now]
              /\ ~reply'.result => api_keys' = api_keys
              /\ UNCHANGED <<metrics, metricSeq, errors, errorSeq, thresholds>>
      ]_vars

\* the deactivated key was refused and left its row untouched, after an
\* active key had been accepted and stamped at a later time than another
C28_Witness ==
    /\ reply.op = "validate_api_key"
    /\ reply.api_key \in RetiredKeys
    /\ ~reply.result
    /\ \E k \in 1..Len(api_keys) :
          api_keys[k].is_active = 0 /\ api_keys[k].last_used = Null
    /\ \E j, k \in 1..Len(api_keys) :
          /\ api_keys[j].is_active = 1 /\ api_keys[k].is_active = 1
          /\ api_keys[j].last_used = 0
          /\ api_keys[k].last_used = TickSeconds

====
